---- MODULE Spec2Model ----
(***************************************************************************)
(* Model of src/elevator.js: ElevatorPathTree.buildElevatorPathTree builds *)
(* the tree of all elevator paths, findFinalDestinationPath searches it,   *)
(* and findElevatorPath composes the two.                                  *)
(*                                                                         *)
(* Objects of class Node live in the heap `nodes`; a node is named by its  *)
(* index there, and `children` holds indices.  this.root is node 1 once    *)
(* it exists (nodes = <<>> models this.root = null).  A JavaScript string  *)
(* is the sequence of its characters.  A schedule object is the sequence   *)
(* of its properties in insertion order, which is the order for..in uses.  *)
(* Schedule arrays are 0-indexed in the source and 1-indexed here: the     *)
(* source's a[t] is floors[t + 1].                                         *)
(***************************************************************************)
EXTENDS Integers, Sequences, FiniteSets, TLC

\* ------------------------------------------------------------------ bounds
\* Number of time steps of the enumerated schedules.
Horizon == 1
\* Floors of the enumerated schedules are 1..MaxFloor.
MaxFloor == 2

\* Elevator identifiers of the enumerated schedules, in insertion order.
ElevatorIds == <<"A", "B", "C">>

\* ------------------------------------------------------------ test inputs
Prop(e, fl) == [elevator |-> e, floors |-> fl]

testCase1 ==
  [elevatorStates |-> << Prop("A", <<1, 4, 3, 2, 2>>),
                         Prop("B", <<3, 3, 3, 4, 2>>),
                         Prop("C", <<2, 2, 6, 6, 6>>),
                         Prop("D", <<6, 1, 1, 4, 5>>) >>,
   startingElevator |-> "A", finalFloor |-> 5, finalTimeInterval |-> 5]

testCase2 ==
  [elevatorStates |-> << Prop("A", <<1, 7, 7, 7, 5, 2, 1>>),
                         Prop("B", <<2, 9, 6, 3, 9, 8, 3>>),
                         Prop("C", <<9, 8, 7, 5, 5, 4, 5>>),
                         Prop("D", <<2, 1, 3, 4, 8, 1, 2>>),
                         Prop("E", <<8, 1, 5, 5, 6, 7, 7>>) >>,
   startingElevator |-> "B", finalFloor |-> 2, finalTimeInterval |-> 6]

testCase3 ==
  [elevatorStates |-> << Prop("A", <<1, 7, 7, 7, 7, 2, 1>>),
                         Prop("B", <<2, 9, 6, 3, 9, 8, 3>>),
                         Prop("C", <<9, 8, 7, 5, 5, 4, 5>>),
                         Prop("D", <<2, 1, 3, 4, 8, 1, 2>>),
                         Prop("E", <<8, 1, 5, 5, 6, 7, 7>>) >>,
   startingElevator |-> "B", finalFloor |-> 2, finalTimeInterval |-> 6]

testCases == {testCase1, testCase2, testCase3}

\* Every schedule over ElevatorIds with a uniform horizon and positive
\* floors.
EnumeratedSchedules ==
  { [i \in 1 .. Len(ElevatorIds) |-> Prop(ElevatorIds[i], fs[i])] :
      fs \in [1 .. Len(ElevatorIds) -> [1 .. Horizon -> 1 .. MaxFloor]] }

\* The schedules findElevatorPath is called with.
Schedules == EnumeratedSchedules \cup { tc.elevatorStates : tc \in testCases }

\* The floors of a schedule, and the greatest of them.
FloorsOf(states) ==
  UNION { { states[i].floors[k] : k \in DOMAIN states[i].floors } :
          i \in DOMAIN states }

TopFloor(states) ==
  CHOOSE f \in FloorsOf(states) : \A g \in FloorsOf(states) : g <= f

\* The destinations a schedule is queried for: every floor up to one above
\* its greatest, every time from 0 to one past its horizon.
DestinationFloors(states) == 1 .. TopFloor(states) + 1
DestinationTimes(states) == 0 .. Len(states[1].floors) + 1

\* ------------------------------------------------------------------ state
VARIABLES
  elevatorStates,          \* the schedule passed to findElevatorPath
  startingElevator,        \* the starting elevator passed to findElevatorPath
  nodes,                   \* heap of Node objects; this.root is nodes[1]
  listOfNodes,             \* buildElevatorPathTree's work list
  finalFloor,              \* parsed from finalDestination
  finalTimeInterval,       \* parsed from finalDestination
  currentLevel,            \* findFinalDestinationPath's currentLevel
  pathStack,               \* findFinalDestinationPath's pathStack
  arrayOfNodesToTraverse,  \* findFinalDestinationPath's work list
  currentNode,             \* node of the latest loop iteration (0: none yet)
  path,                    \* what findFinalDestinationPath returned
  result,                  \* what findElevatorPath returned
  pc                       \* position in findElevatorPath

vars == << elevatorStates, startingElevator, nodes, listOfNodes, finalFloor,
           finalTimeInterval, currentLevel, pathStack, arrayOfNodesToTraverse,
           currentNode, path, result, pc >>

\* ---------------------------------------------------------- JS primitives
\* The property of the schedule object named e.
Lookup(states, e) ==
  states[CHOOSE i \in DOMAIN states : states[i].elevator = e].floors

\* states[e][t] is defined (t inside the array) and truthy (not 0).
Truthy(states, e, t) ==
  /\ t + 1 \in DOMAIN Lookup(states, e)
  /\ Lookup(states, e)[t + 1] # 0

\* states[e][t] where it is defined.
At(states, e, t) == Lookup(states, e)[t + 1]

\* The keys of the schedule object, in for..in order.
Keys(states) == [i \in DOMAIN states |-> states[i].elevator]

\* new Node(data)
Node(data) == [data |-> data, children |-> <<>>]

\* The values returned by findFinalDestinationPath: null, or a string.
Null == [type |-> "null", chars |-> <<>>]
Str(s) == [type |-> "string", chars |-> s]

\* Array.prototype.join("") on an array of one-character identifiers.
RECURSIVE Join(_)
Join(stack) ==
  IF stack = <<>> THEN <<>> ELSE <<Head(stack)>> \o Join(Tail(stack))

\* String.prototype.substring(1)
Substring1(s) == IF s = <<>> THEN <<>> ELSE Tail(s)

\* The literal "There is no solution".
NoSolution ==
  << "T", "h", "e", "r", "e", " ", "i", "s", " ", "n", "o", " ",
     "s", "o", "l", "u", "t", "i", "o", "n" >>

\* n calls of Array.prototype.pop, which leaves an empty array empty.
PopN(stack, n) ==
  IF n >= Len(stack) THEN <<>> ELSE SubSeq(stack, 1, Len(stack) - n)

\* ------------------------------------------------ buildElevatorPathTree
\* The root node: the starting elevator at t = 0.
RootNode(states, start) ==
  Node([elevator |-> start, floor |-> At(states, start, 0), time |-> 0])

\* a === b for a = states[e][t], b = states[p][t]; undefined === undefined.
StrictEquals(states, e, p, t) ==
  IF (t + 1 \in DOMAIN Lookup(states, e)) /\ (t + 1 \in DOMAIN Lookup(states, p))
  THEN At(states, e, t) = At(states, p, t)
  ELSE (t + 1 \in DOMAIN Lookup(states, e)) = (t + 1 \in DOMAIN Lookup(states, p))

\* data of a child created while expanding a node of time currentTime
ChildDataSkipsAStep(e, f, currentTime) ==
  [elevator |-> e, floor |-> f, time |-> currentTime + 2]

ChildData(e, f, currentTime) ==
  [elevator |-> e, floor |-> f, time |-> currentTime + 1]

\* Staying on the elevator: the child for nextFloorSameElevator, if truthy.
StayChildrenNextIndex(states, currentElevator, currentTime) ==
  IF Truthy(states, currentElevator, currentTime + 1)
  THEN << Node(ChildData(currentElevator,
                         At(states, currentElevator, currentTime + 1),
                         currentTime)) >>
  ELSE <<>>

StayChildren(states, currentElevator, currentTime) ==
  IF Truthy(states, currentElevator, currentTime)
  THEN << Node(ChildData(currentElevator,
                         At(states, currentElevator, currentTime),
                         currentTime)) >>
  ELSE <<>>

\* The condition under which possibleNextElevator gets a transfer child.
SwitchConditionAnyFloor(states, currentElevator, possibleNextElevator, currentTime) ==
  /\ Truthy(states, possibleNextElevator, currentTime)
  /\ currentElevator # possibleNextElevator

SwitchConditionSameElevatorToo(states, currentElevator, possibleNextElevator, currentTime) ==
  /\ Truthy(states, possibleNextElevator, currentTime)
  /\ StrictEquals(states, currentElevator, possibleNextElevator, currentTime)

SwitchCondition(states, currentElevator, possibleNextElevator, currentTime) ==
  /\ Truthy(states, possibleNextElevator, currentTime)
  /\ currentElevator # possibleNextElevator
  /\ StrictEquals(states, currentElevator, possibleNextElevator, currentTime)

\* The elevators to switch to, in the order for..in visits them.
SwitchElevators(states, currentElevator, currentTime) ==
  SelectSeq(Keys(states),
            LAMBDA p : SwitchCondition(states, currentElevator, p, currentTime))

\* The transfer children, one per elevator to switch to.
TransferChildren(states, currentElevator, currentTime) ==
  LET sw == SwitchElevators(states, currentElevator, currentTime)
  IN  [k \in DOMAIN sw |->
         Node(ChildData(sw[k], At(states, sw[k], currentTime), currentTime))]

\* All children of one expansion, in the order addChild is called.
NewChildren(states, currentElevator, currentTime) ==
  StayChildren(states, currentElevator, currentTime)
    \o TransferChildren(states, currentElevator, currentTime)

\* Indices the heap gives to k objects allocated after the first n.
Allocated(n, k) == [j \in 1 .. k |-> n + j]

\* ------------------------------------------------------------------ Init
\* findElevatorPath is called; new ElevatorPathTree() leaves root = null.
Init ==
  /\ elevatorStates \in Schedules
  /\ startingElevator \in { elevatorStates[i].elevator : i \in DOMAIN elevatorStates }
  /\ nodes = <<>>
  /\ listOfNodes = <<>>
  /\ finalFloor = 0
  /\ finalTimeInterval = 0
  /\ currentLevel = 0
  /\ pathStack = <<>>
  /\ arrayOfNodesToTraverse = <<>>
  /\ currentNode = 0
  /\ path = Null
  /\ result = <<>>
  /\ pc = "buildRoot"

\* buildElevatorPathTree, up to the loop: the root and the work list.
BuildRoot ==
  /\ pc = "buildRoot"
  /\ nodes' = << RootNode(elevatorStates, startingElevator) >>
  /\ listOfNodes' = << 1 >>
  /\ pc' = "build"
  /\ UNCHANGED << elevatorStates, startingElevator, finalFloor,
                  finalTimeInterval, currentLevel, pathStack,
                  arrayOfNodesToTraverse, currentNode, path, result >>

\* One iteration of buildElevatorPathTree's while loop.
BuildExpand ==
  /\ pc = "build"
  /\ listOfNodes # <<>>
  /\ LET cur == Head(listOfNodes)
         new == NewChildren(elevatorStates, nodes[cur].data.elevator,
                            nodes[cur].data.time)
         idx == Allocated(Len(nodes), Len(new))
     IN  /\ nodes' = [nodes EXCEPT ![cur].children = @ \o idx] \o new
         /\ listOfNodes' = Tail(listOfNodes) \o idx
  /\ UNCHANGED << elevatorStates, startingElevator, finalFloor,
                  finalTimeInterval, currentLevel, pathStack,
                  arrayOfNodesToTraverse, currentNode, path, result, pc >>

\* --------------------------------------------- findFinalDestinationPath
\* The stack after the pops of one iteration: none when the node is deeper
\* than currentLevel, currentLevel - time + 1 otherwise.
StackAfterPopsOneShort(stack, level, currentNodeTime) ==
  IF level < currentNodeTime
  THEN stack
  ELSE PopN(stack, level - currentNodeTime)

StackAfterPops(stack, level, currentNodeTime) ==
  IF level < currentNodeTime
  THEN stack
  ELSE PopN(stack, level - currentNodeTime + 1)

\* The work list after the node's children are unshifted, if they are.
NextToTraverseStopsEarly(rest, children, currentNodeTime, finalTime) ==
  IF currentNodeTime < finalTime - 1 THEN children \o rest ELSE rest

NextToTraversePushes(rest, children, currentNodeTime, finalTime) ==
  IF currentNodeTime < finalTime THEN rest \o children ELSE rest

NextToTraverse(rest, children, currentNodeTime, finalTime) ==
  IF currentNodeTime < finalTime THEN children \o rest ELSE rest

\* The test that ends the search with a path.
IsFinalDestinationAnyLevel(level, currentNodeFloor, floor, finalTime) ==
  currentNodeFloor = floor

IsFinalDestination(level, currentNodeFloor, floor, finalTime) ==
  level = finalTime /\ currentNodeFloor = floor

\* pathStack.join("").substring(1)
PathString(stack) == Str(Substring1(Join(stack)))

\* path || "There is no solution": null and "" are falsy.
OrNoSolution(p) ==
  IF p.type = "null" \/ p.chars = <<>> THEN NoSolution ELSE p.chars

\* findElevatorPath after the build: the destination is split and parsed,
\* and findFinalDestinationPath is entered (its initialisations).
StartSearch ==
  /\ pc = "build"
  /\ listOfNodes = <<>>
  /\ finalFloor' \in DestinationFloors(elevatorStates)
  /\ finalTimeInterval' \in DestinationTimes(elevatorStates)
  /\ currentLevel' = 0
  /\ pathStack' = <<>>
  /\ arrayOfNodesToTraverse' = << 1 >>
  /\ pc' = "search"
  /\ UNCHANGED << elevatorStates, startingElevator, nodes, listOfNodes,
                  currentNode, path, result >>

\* One iteration of findFinalDestinationPath's while loop.
SearchStep ==
  /\ pc = "search"
  /\ arrayOfNodesToTraverse # <<>>
  /\ LET cur == Head(arrayOfNodesToTraverse)
         currentNodeFloor == nodes[cur].data.floor
         currentNodeElevator == nodes[cur].data.elevator
         currentNodeTime == nodes[cur].data.time
         stack == Append(StackAfterPops(pathStack, currentLevel, currentNodeTime),
                         currentNodeElevator)
     IN  /\ currentNode' = cur
         /\ pathStack' = stack
         /\ currentLevel' = currentNodeTime
         /\ arrayOfNodesToTraverse' =
              NextToTraverse(Tail(arrayOfNodesToTraverse), nodes[cur].children,
                             currentNodeTime, finalTimeInterval)
         /\ IF IsFinalDestination(currentNodeTime, currentNodeFloor,
                                  finalFloor, finalTimeInterval)
            THEN path' = PathString(stack) /\ pc' = "returned"
            ELSE UNCHANGED << path, pc >>
  /\ UNCHANGED << elevatorStates, startingElevator, nodes, listOfNodes,
                  finalFloor, finalTimeInterval, result >>

\* The loop ends with nothing left to traverse: return null.
SearchExhausted ==
  /\ pc = "search"
  /\ arrayOfNodesToTraverse = <<>>
  /\ path' = Null
  /\ pc' = "returned"
  /\ UNCHANGED << elevatorStates, startingElevator, nodes, listOfNodes,
                  finalFloor, finalTimeInterval, currentLevel, pathStack,
                  arrayOfNodesToTraverse, currentNode, result >>

\* findElevatorPath returns.
FindElevatorPathReturn ==
  /\ pc = "returned"
  /\ result' = OrNoSolution(path)
  /\ pc' = "done"
  /\ UNCHANGED << elevatorStates, startingElevator, nodes, listOfNodes,
                  finalFloor, finalTimeInterval, currentLevel, pathStack,
                  arrayOfNodesToTraverse, currentNode, path >>

Next ==
  \/ BuildRoot
  \/ BuildExpand
  \/ StartSearch
  \/ SearchStep
  \/ SearchExhausted
  \/ FindElevatorPathReturn

Spec == Init /\ [][Next]_vars

\* ===================================================== tree vocabulary
NodeIds == DOMAIN nodes

Range(seq) == { seq[k] : k \in DOMAIN seq }

\* The time horizon of the schedule: entries per elevator.
HorizonOf(states) == Len(states[1].floors)

\* The node whose children array holds i (i is not the root).
Parent(i) == CHOOSE p \in NodeIds : i \in Range(nodes[p].children)

\* The elevator identifiers on the tree path from the root to node i.
RECURSIVE RootPath(_)
RootPath(i) ==
  IF i = 1 THEN << nodes[1].data.elevator >>
  ELSE Append(RootPath(Parent(i)), nodes[i].data.elevator)

\* Node i and its descendants, each node before its children, children in
\* the order of the children array.
RECURSIVE Preorder(_)
RECURSIVE PreorderAll(_)
PreorderAll(ids) ==
  IF ids = <<>> THEN <<>> ELSE Preorder(Head(ids)) \o PreorderAll(Tail(ids))
Preorder(i) == << i >> \o PreorderAll(nodes[i].children)

\* The part of seq after its first occurrence of x.
SuffixAfter(seq, x) ==
  LET k == CHOOSE j \in DOMAIN seq : seq[j] = x
  IN  SubSeq(seq, k + 1, Len(seq))

\* Nodes at the destination: time finalTimeInterval, floor finalFloor.
Matches ==
  { i \in NodeIds : /\ nodes[i].data.time = finalTimeInterval
                    /\ nodes[i].data.floor = finalFloor }

\* The elevators other than e on e's floor at schedule index t, in
\* insertion order.
CoLocated(e, t) ==
  SelectSeq(Keys(elevatorStates),
            LAMBDA p : /\ p # e
                       /\ Truthy(elevatorStates, p, t)
                       /\ At(elevatorStates, p, t) = At(elevatorStates, e, t))

\* ================================================================ claims

\* C1: a returned path for targetTime >= 1 has exactly targetTime entries,
\* starts on the starting elevator or one on its floor at index 0, changes
\* elevator between entries t and t+1 only between elevators on the same
\* floor at index t, and ends on an elevator whose floor at index
\* targetTime-1 is targetFloor.
C1_PathIsValid ==
  (pc \in {"returned", "done"} /\ path.type = "string" /\ finalTimeInterval >= 1)
  => LET p == path.chars
         T == finalTimeInterval
     IN  /\ Len(p) = T
         /\ T <= HorizonOf(elevatorStates)
         /\ \/ p[1] = startingElevator
            \/ At(elevatorStates, p[1], 0) = At(elevatorStates, startingElevator, 0)
         /\ \A t \in 1 .. T - 1 :
              \/ p[t] = p[t + 1]
              \/ At(elevatorStates, p[t], t) = At(elevatorStates, p[t + 1], t)
         /\ At(elevatorStates, p[T], T - 1) = finalFloor

C1_Witness ==
  /\ pc = "returned"
  /\ path.type = "string"
  /\ finalTimeInterval >= 2
  /\ Len(path.chars) = finalTimeInterval
  /\ path.chars[1] # startingElevator
  /\ \E t \in 1 .. finalTimeInterval - 1 : path.chars[t] # path.chars[t + 1]

\* C2: findFinalDestinationPath returns null exactly when the tree has no
\* node of time targetTime and floor targetFloor.
C2_NullIffNoMatch ==
  pc = "returned" => ((path = Null) <=> (Matches = {}))

C2_Witness ==
  /\ pc = "returned"
  /\ path = Null
  /\ Cardinality({ i \in NodeIds : nodes[i].data.time = finalTimeInterval }) >= 2

\* C3: the path returned is that of the first destination node in the
\* order that explores, at every node, the stay child with its whole
\* subtree before the transfer children, and those in insertion order;
\* test case 1 gives AABDD and test case 2 gives DEECAA.
NotFound == [found |-> FALSE, p |-> <<>>]

RECURSIVE FirstPath(_, _, _)
RECURSIVE FirstAmong(_, _, _, _)
\* first path to the destination for a rider on elevator e, floor f, time t
FirstPath(e, f, t) ==
  IF t = finalTimeInterval
  THEN IF f = finalFloor THEN [found |-> TRUE, p |-> << e >>] ELSE NotFound
  ELSE IF t > finalTimeInterval \/ ~Truthy(elevatorStates, e, t)
  THEN NotFound
  ELSE LET r == FirstAmong(<< e >> \o CoLocated(e, t),
                           At(elevatorStates, e, t), t + 1, 1)
       IN  IF r.found THEN [found |-> TRUE, p |-> << e >> \o r.p] ELSE NotFound
FirstAmong(cands, f, t, k) ==
  IF k > Len(cands) THEN NotFound
  ELSE LET r == FirstPath(cands[k], f, t)
       IN  IF r.found THEN r ELSE FirstAmong(cands, f, t, k + 1)

IsQuery(tc) ==
  /\ elevatorStates = tc.elevatorStates
  /\ startingElevator = tc.startingElevator
  /\ finalFloor = tc.finalFloor
  /\ finalTimeInterval = tc.finalTimeInterval

C3_FirstInTraversalOrder ==
  LET r == FirstPath(startingElevator, At(elevatorStates, startingElevator, 0), 0)
  IN  /\ (pc = "returned" /\ r.found) => path = Str(Tail(r.p))
      /\ (pc = "done" /\ r.found /\ finalTimeInterval >= 1) => result = Tail(r.p)
      /\ (pc = "done" /\ IsQuery(testCase1)) => result = << "A", "A", "B", "D", "D" >>
      /\ (pc = "done" /\ IsQuery(testCase2))
           => result = << "D", "E", "E", "C", "A", "A" >>

C3_Witness ==
  /\ pc = "done"
  /\ Cardinality(Matches) >= 2
  /\ result # NoSolution
  /\ \E i \in Matches : Tail(RootPath(i)) # result

\* C4: findElevatorPath never reports "no solution" when the tree holds a
\* node at the destination, targetTime = 0 included.
C4_NoSolutionOnlyWithoutMatch ==
  (pc = "done" /\ Matches # {}) => result # NoSolution

\* C5: with targetTime greater than the horizon the search visits every
\* node of the tree (what is left to traverse is always the part of the
\* tree after the node just visited; it ends on the last node with nothing
\* left) and returns null, which the query reports as no solution.
C5_BeyondHorizonNotFound ==
  (pc \in {"search", "returned", "done"}
     /\ finalTimeInterval > HorizonOf(elevatorStates))
  => /\ Len(Preorder(1)) = Len(nodes)
     /\ pc = "search" =>
          PreorderAll(arrayOfNodesToTraverse) =
            IF currentNode = 0 THEN Preorder(1)
            ELSE SuffixAfter(Preorder(1), currentNode)
     /\ pc \in {"returned", "done"} =>
          /\ path = Null
          /\ arrayOfNodesToTraverse = <<>>
          /\ currentNode = Preorder(1)[Len(nodes)]
     /\ pc = "done" => result = NoSolution

C5_Witness ==
  /\ pc = "done"
  /\ finalTimeInterval > HorizonOf(elevatorStates)
  /\ Len(nodes) > HorizonOf(elevatorStates) + 1
  /\ path = Null

\* C6: after each node is visited, pathStack is the elevator sequence from
\* the root to that node, root included, and currentLevel is its time.
C6_StackIsRootPath ==
  (pc \in {"search", "returned", "done"} /\ currentNode # 0)
  => /\ pathStack = RootPath(currentNode)
     /\ Len(pathStack) = nodes[currentNode].data.time + 1
     /\ currentLevel = nodes[currentNode].data.time

\* the nodes the search visits, in order
VisitOrder ==
  SelectSeq(Preorder(1), LAMBDA i : nodes[i].data.time <= finalTimeInterval)

\* the traversal just moved from a node to one at least two levels shallower
C6_Witness ==
  /\ pc = "search"
  /\ currentNode # 0
  /\ \E k \in 2 .. Len(VisitOrder) :
       /\ VisitOrder[k] = currentNode
       /\ nodes[VisitOrder[k - 1]].data.time >= nodes[currentNode].data.time + 2

\* C7 as stated: no two distinct nodes have the same elevator and time.
C7_OncePerElevatorAndTime ==
  \A i, j \in NodeIds :
    (i # j) => ~ /\ nodes[i].data.elevator = nodes[j].data.elevator
                 /\ nodes[i].data.time = nodes[j].data.time

\* C7 amended: a node is created once per distinct sequence of elevators
\* from the root: no two distinct nodes have the same root-to-node elevator
\* sequence.
C7_OncePerRootPath ==
  Cardinality({ RootPath(i) : i \in NodeIds }) = Cardinality(NodeIds)

C7_Witness ==
  /\ pc = "search"
  /\ \E i, j \in NodeIds :
       /\ i # j
       /\ nodes[i].data.elevator = nodes[j].data.elevator
       /\ nodes[i].data.time = nodes[j].data.time

\* C8: an expanded node on elevator E at time T has, after its stay child,
\* exactly one transfer child per elevator P # E on E's floor at index T,
\* in insertion order; with no floor for E at index T it has no children.
Expanded(i) == pc # "buildRoot" /\ i \notin Range(listOfNodes)

C8_ChildrenOfExpansion ==
  \A i \in NodeIds :
    LET E == nodes[i].data.elevator
        T == nodes[i].data.time
        kids == [k \in DOMAIN nodes[i].children |->
                   nodes[nodes[i].children[k]].data.elevator]
    IN  IF ~Expanded(i) \/ ~Truthy(elevatorStates, E, T)
        THEN nodes[i].children = <<>>
        ELSE /\ kids = << E >> \o CoLocated(E, T)
             /\ \A k \in DOMAIN kids : nodes[nodes[i].children[k]].data.time = T + 1

\* a node with a transfer child and an elevator it could not switch to, and
\* a node whose elevator has no floor at the node's time
C8_Witness ==
  /\ pc = "search"
  /\ \E i \in NodeIds :
       /\ Len(nodes[i].children) >= 2
       /\ Len(nodes[i].children) < Len(elevatorStates)
  /\ \E i \in NodeIds :
       ~Truthy(elevatorStates, nodes[i].data.elevator, nodes[i].data.time)

\* C9 as stated: every node's floor is the schedule's floor for the node's
\* elevator at the node's own time index.
C9_FloorAtOwnTime ==
  \A i \in NodeIds :
    /\ Truthy(elevatorStates, nodes[i].data.elevator, nodes[i].data.time)
    /\ nodes[i].data.floor =
         At(elevatorStates, nodes[i].data.elevator, nodes[i].data.time)

\* C9 amended: the root's floor is the starting elevator's floor at index
\* 0, and every other node's floor is the schedule's floor for the node's
\* elevator at index time - 1.
C9_FloorAtPreviousIndex ==
  \A i \in NodeIds :
    IF i = 1
    THEN /\ nodes[i].data.time = 0
         /\ nodes[i].data.elevator = startingElevator
         /\ nodes[i].data.floor = At(elevatorStates, startingElevator, 0)
    ELSE /\ nodes[i].data.time >= 1
         /\ nodes[i].data.floor =
              At(elevatorStates, nodes[i].data.elevator, nodes[i].data.time - 1)

C9_Witness ==
  /\ pc = "search"
  /\ \E i \in NodeIds :
       /\ i # 1
       /\ Truthy(elevatorStates, nodes[i].data.elevator, nodes[i].data.time)
       /\ nodes[i].data.floor #
            At(elevatorStates, nodes[i].data.elevator, nodes[i].data.time)

ChildTimes ==
  \A i \in NodeIds :
    \A k \in DOMAIN nodes[i].children :
      nodes[nodes[i].children[k]].data.time = nodes[i].data.time + 1

\* C10 as stated: child time = parent time + 1 and no node's time exceeds
\* H - 1.
C10_TimesBelowHorizon ==
  /\ ChildTimes
  /\ \A i \in NodeIds : nodes[i].data.time <= HorizonOf(elevatorStates) - 1

\* C10 amended: child time = parent time + 1, no node's time exceeds H, and
\* the finished tree has a node at every time from 0 to H.
C10_TimesUpToHorizon ==
  /\ ChildTimes
  /\ \A i \in NodeIds : nodes[i].data.time <= HorizonOf(elevatorStates)
  /\ pc \in {"search", "returned", "done"} =>
       \A t \in 0 .. HorizonOf(elevatorStates) :
         \E i \in NodeIds : nodes[i].data.time = t

C10_Witness ==
  /\ pc = "search"
  /\ \E i \in NodeIds :
       /\ nodes[i].data.time = HorizonOf(elevatorStates)
       /\ nodes[i].children = <<>>

====
